---- MODULE Spec2Model ----
(***************************************************************************)
(* A model of ntt_project_manager: one invocation of Manager (settings     *)
(* loaded, projects indexed, command line parsed, needed commands          *)
(* validated, the action's commands composed and run), and the cascading   *)
(* config-file reader.                                                     *)
(*                                                                         *)
(* Paths and commands: a path is a string built with \o as os.path.join    *)
(* builds it (relative to the base directory); a command line is the       *)
(* sequence of its words.  A template is a sequence of words, each a       *)
(* sequence of segments that are literal text or a {{ NAME }} placeholder. *)
(***************************************************************************)
EXTENDS Naturals, Sequences, FiniteSets, TLC

(* ------------------------------ bounds -------------------------------- *)

\* Longest settings.projects list drawn.
MaxProjects == 2

\* Longest project.executables list drawn.
MaxExecs == 2

\* Longest config file drawn, in lines.
MaxLines == 2

\* Depth of nested calls at which the interpreter raises RecursionError
\* (sys.getrecursionlimit(), scaled down; more than the number of files).
RecursionLimit == 4

SeqsUpTo(S, n) == UNION {[1..k -> S] : k \in 0..n}

(* ------------------------------ models.py ----------------------------- *)

ProjectLanguage == {"C", "Python"}

\* The project types the manager tells apart ("library" against the rest).
ProjectType == {"executable", "library"}

BUILD_TYPES == {"debug", "release", "test", "web"}

\* str.upper() on the build types.
Upper(t) ==
    CASE t = "debug" -> "DEBUG"
      [] t = "release" -> "RELEASE"
      [] t = "test" -> "TEST"
      [] t = "web" -> "WEB"

\* An Optional value: None, or Some(v).
None == [none |-> TRUE, v |-> <<>>]
Some(x) == [none |-> FALSE, v |-> x]

\* Template segments: literal text, or the placeholder {{ name }}.
Lit(s) == [var |-> "", lit |-> s]
Var(n) == [var |-> n, lit |-> ""]

\* ExecutableConfig(name, windowsPath, linuxPath); paths are one-word templates.
ExecutableConfig(n) ==
    [name |-> n,
     windowsPath |-> << <<Var("BUILD_DIR"), Lit("/"), Lit(n), Lit(".exe")>> >>,
     linuxPath |-> << <<Var("BUILD_DIR"), Lit("/"), Lit(n)>> >>]

\* BuildTypeConfig(options): a template of generator flags.
BuildTypeConfig(opts) == [options |-> opts]

Project(n, l, t, ex, btc) ==
    [name |-> n, language |-> l, type |-> t, executables |-> ex,
     buildTypesConfig |-> btc]

\* BuildConfig(): the defaults of the global settings.
BuildConfig ==
    [windows |-> [cmake_tool |-> "Visual Studio 17 2022"],
     linux |-> [cmake_tool |-> "Unix Makefiles"],
     neededCommands |-> <<"cmake", "git">>,
     buildTypesConfig |->
        [t \in BUILD_TYPES |->
            CASE t = "debug" ->
                    BuildTypeConfig(<< <<Lit("-DCMAKE_BUILD_TYPE=Debug")>> >>)
              [] t = "release" ->
                    BuildTypeConfig(<< <<Lit("-DCMAKE_BUILD_TYPE=Release")>> >>)
              [] t = "web" ->
                    BuildTypeConfig(<< <<Lit("-DCMAKE_BUILD_TYPE=Release")>>,
                                       <<Lit("-DWEB_BUILD=ON")>> >>)
              [] t = "test" ->
                    BuildTypeConfig(<< <<Lit("-DCMAKE_BUILD_TYPE=Debug")>>,
                                       <<Lit("-DENABLE_TESTS=ON")>> >>)]]

Settings(ps) == [config |-> BuildConfig, projects |-> ps]

(* ------------------------- the inputs drawn --------------------------- *)

ProjectNames == {"engine", "tool"}
ExecNames == {"run", "test", "demo"}

\* A project's own build-type options, when it sets some: debug only.
ProjectBuildTypes ==
    [t \in {"debug"} |->
        BuildTypeConfig(<< <<Lit("-DNAME="), Var("PROJECT_NAME")>>,
                           <<Lit("-DOUT="), Var("BUILD_DIR")>> >>)]

\* Projects of every name and language (C ones of both types), to index.
RegistryPool ==
    {Project(n, "Python", "executable", None, None) : n \in ProjectNames}
    \cup {Project(n, "C", t,
                  Some(<<ExecutableConfig("demo"), ExecutableConfig("run")>>),
                  None) : n \in ProjectNames, t \in ProjectType}

\* One C project with every executables list and build-type setting.
TargetPool ==
    {Project("engine", "C", t, ex, btc) :
        t \in ProjectType,
        ex \in {None} \cup {Some([i \in DOMAIN ns |-> ExecutableConfig(ns[i])]) :
                                ns \in SeqsUpTo(ExecNames, MaxExecs)},
        btc \in {None, Some(ProjectBuildTypes)}}

\* Templates with a placeholder that names no constant of the manager:
\* build-type options for release, and the paths of an executable.
ToolchainBuildTypes ==
    [t \in {"release"} |->
        BuildTypeConfig(<< <<Lit("-DNAME="), Var("PROJECT_NAME")>>,
                           <<Lit("-DTOOLCHAIN="), Var("TOOLCHAIN")>> >>)]

SuffixedExecutableConfig(n) ==
    [name |-> n,
     windowsPath |-> << <<Var("BUILD_DIR"), Lit("/"), Lit(n), Var("EXECUTABLE_SUFFIX")>> >>,
     linuxPath |-> << <<Var("BUILD_DIR"), Lit("/"), Lit(n), Var("EXECUTABLE_SUFFIX")>> >>]

\* One C project with such templates.
TemplatePool ==
    {Project("engine", "C", "executable", Some(<<ex>>), btc) :
        ex \in {ExecutableConfig("run"), SuffixedExecutableConfig("run"),
                SuffixedExecutableConfig("demo")},
        btc \in {None, Some(ToolchainBuildTypes)}}

SettingsDocuments ==
    {Settings(ps) : ps \in SeqsUpTo(RegistryPool, MaxProjects)}
    \cup {Settings(<<p>>) : p \in TargetPool}
    \cup {Settings(<<p>>) : p \in TemplatePool}

\* What can be typed after a subcommand.
CliNames == ProjectNames \cup {"demo"}
Subcommands == {"build", "run", "test", "example"}

(* ------------------------------ state --------------------------------- *)

VARIABLES
    pc,              \* where the invocation stands
    error,           \* the exception that ended it, "" when none
    settings,        \* Manager.settings
    platform,        \* SystemInfo.PLATFORM
    files,           \* the files of <project>/config, as last read
    cProjects, pythonProjects, projectsDict, exampleTargets,
    args,            \* Manager.args
    validated,       \* the ValidateCommandExist calls made, in order
    cProjectAddtionalOptions, configFilesOptions,
    cProjectGenerateCommand, cProjectBuildCommand, cExecutablePath,
    plan,            \* the RunCommand calls of the branch taken, in order
    runLog           \* the RunCommand calls made, each with its exit code

vars == <<pc, error, settings, platform, files, cProjects, pythonProjects,
          projectsDict, exampleTargets, args, validated,
          cProjectAddtionalOptions, configFilesOptions,
          cProjectGenerateCommand, cProjectBuildCommand, cExecutablePath,
          plan, runLog>>

(* ------------------- Manager._ExtractInformation ---------------------- *)

CProjectsOf(ps) == SelectSeq(ps, LAMBDA p : p.language = "C")

PythonProjectsOf(ps) == SelectSeq(ps, LAMBDA p : p.language = "Python")

\* The order in which the projects are written into _projectsDict.
IndexOrderPythonFirst(cs, pys) == pys \o cs

IndexOrder(cs, pys) == cs \o pys

\* d[k] = v on a dict whose order does not matter.
DictPut(d, k, v) == (k :> v) @@ d

\* for project in list: _projectsDict[project.name] = project
RECURSIVE ProjectsDictOf(_)
ProjectsDictOf(list) ==
    IF list = <<>> THEN <<>>
    ELSE LET n == Len(list)
         IN  DictPut(ProjectsDictOf(SubSeq(list, 1, n - 1)), list[n].name, list[n])

\* for example in project.executables: the names other than "run" and "test".
RECURSIVE ExamplesOfProject(_, _, _)
ExamplesOfProject(targets, project, execs) ==
    IF execs = <<>> THEN targets
    ELSE LET n == Len(execs)
             before == ExamplesOfProject(targets, project, SubSeq(execs, 1, n - 1))
         IN  IF execs[n].name # "run" /\ execs[n].name # "test"
             THEN DictPut(before, execs[n].name, project)
             ELSE before

\* for project in self._cProjects: ... self._exampleTargets[example.name] = project
RECURSIVE ExampleTargetsOf(_)
ExampleTargetsOf(cs) ==
    IF cs = <<>> THEN <<>>
    ELSE LET n == Len(cs)
             before == ExampleTargetsOf(SubSeq(cs, 1, n - 1))
         IN  IF ~cs[n].executables.none
             THEN ExamplesOfProject(before, cs[n], cs[n].executables.v)
             ELSE before

(* ------------------------ Manager._ExtractArgs ------------------------ *)

Names(list) == {list[i].name : i \in DOMAIN list}

\* The choices= of each subcommand's positional argument.
Choices(command) ==
    CASE command = "build" -> Names(cProjects)
      [] command = "run" -> Names(pythonProjects \o cProjects)
      [] command = "test" ->
            Names(SelectSeq(cProjects, LAMBDA p : p.type = "library"))
      [] command = "example" -> DOMAIN exampleTargets

NoArgs == [command |-> "", projectName |-> "", exampleName |-> "", type |-> "debug"]

ParsedArgs(command, name, type) ==
    [command |-> command,
     projectName |-> IF command = "example" THEN "" ELSE name,
     exampleName |-> IF command = "example" THEN name ELSE "",
     type |-> type]

(* ------------------------------ utils.py ------------------------------ *)

\* subprocess.run(..., check=True): a non-zero exit code raises.
RunOutcomeUnchecked(rc) == ""

RunOutcome(rc) == IF rc = 0 THEN "" ELSE "CalledProcessError"

\* which/where fails for a command that is not on PATH: SystemError.
ValidateOutcomeSwallowed(found) == ""

ValidateOutcome(found) == IF found THEN "" ELSE "SystemError"

ExitCodes == {0, 1}

(* --------------- Manager._ExtractCConfigFilesOptionsInternal ---------- *)

\* The lines of a config file, as the reader's patterns tell them apart.
Comment == [kind |-> "comment", file |-> "", key |-> "", value |-> ""]
Include(f) == [kind |-> "include", file |-> f, key |-> "", value |-> ""]
KeyValue(k, v) == [kind |-> "kv", file |-> "", key |-> k, value |-> v]
Other == [kind |-> "other", file |-> "", key |-> "", value |-> ""]

Absent == [exists |-> FALSE, lines |-> <<>>]
File(ls) == [exists |-> TRUE, lines |-> ls]

CfgNames == {t \o ".cfg" : t \in BUILD_TYPES} \cup {"common.cfg"}

NoFiles == [f \in CfgNames |-> Absent]

\* os.path.exists(filePath)
Exists(fs, name) == name \in DOMAIN fs /\ fs[name].exists

HasKey(options, key) == \E i \in DOMAIN options : options[i].key = key

\* options[key] = value: a new key goes last, a known key keeps its place.
DictSet(options, key, value) ==
    IF HasKey(options, key)
    THEN [i \in DOMAIN options |->
            IF options[i].key = key THEN [key |-> key, value |-> value]
            ELSE options[i]]
    ELSE Append(options, [key |-> key, value |-> value])

\* The included values kept only for keys not yet set.
RECURSIVE DictUpdateKeepOld(_, _)
DictUpdateKeepOld(options, included) ==
    IF included = <<>> THEN options
    ELSE LET n == Len(included)
             before == DictUpdateKeepOld(options, SubSeq(included, 1, n - 1))
         IN  IF HasKey(before, included[n].key) THEN before
             ELSE DictSet(before, included[n].key, included[n].value)

\* options.update(includedOptions)
RECURSIVE DictUpdate(_, _)
DictUpdate(options, included) ==
    IF included = <<>> THEN options
    ELSE LET n == Len(included)
         IN  DictSet(DictUpdate(options, SubSeq(included, 1, n - 1)),
                     included[n].key, included[n].value)

\* The result of a call: the options returned, or the exception raised.
Returned(options) == [error |-> "", options |-> options]
Raised(e) == [error |-> e, options |-> <<>>]

\* The call at nesting `depth` for file `name`; ReadLines is its loop, from
\* line i on with `options` so far.
RECURSIVE ExtractCConfigFilesOptionsInternal(_, _, _)
RECURSIVE ReadLines(_, _, _, _, _)
ReadLines(fs, lines, i, options, depth) ==
    IF i > Len(lines) THEN Returned(options)
    ELSE LET line == lines[i]
         IN  CASE line.kind = "comment" ->
                    ReadLines(fs, lines, i + 1, options, depth)
               [] line.kind = "include" ->
                    LET inc == ExtractCConfigFilesOptionsInternal(
                                   fs, line.file, depth + 1)
                    IN  IF inc.error # "" THEN inc
                        ELSE ReadLines(fs, lines, i + 1,
                                       DictUpdate(options, inc.options), depth)
               [] line.kind = "kv" ->
                    ReadLines(fs, lines, i + 1,
                              DictSet(options, line.key, line.value), depth)
               [] OTHER -> ReadLines(fs, lines, i + 1, options, depth)

ExtractCConfigFilesOptionsInternal(fs, name, depth) ==
    IF depth > RecursionLimit THEN Raised("RecursionError")
    ELSE IF ~Exists(fs, name) THEN Returned(<<>>)
    ELSE ReadLines(fs, fs[name].lines, 1, <<>>, depth)

\* Manager._ExtractCConfigFilesOptions
ExtractCConfigFilesOptions(fs, type) ==
    ExtractCConfigFilesOptionsInternal(fs, type \o ".cfg", 1)

(* ---------------- Manager._ExtractCProjectInformation ----------------- *)

\* jinja2's Template(...).render(**constants) on one word: a placeholder
\* takes its value, one that names no constant renders as empty text.
RECURSIVE RenderWord(_, _)
RenderWord(word, constants) ==
    IF word = <<>> THEN ""
    ELSE LET seg == Head(word)
             text == IF seg.var = "" THEN seg.lit
                     ELSE IF seg.var \in DOMAIN constants THEN constants[seg.var]
                     ELSE ""
         IN  text \o RenderWord(Tail(word), constants)

Render(template, constants) ==
    [i \in DOMAIN template |-> RenderWord(template[i], constants)]

\* os.path.join(self._baseDir, project.name), relative to the base directory.
ProjectBaseDir(name) == name

\* os.path.join(base, "build", PLATFORM, type)
ProjectBuildDir(name, plat, type) ==
    ProjectBaseDir(name) \o "/build/" \o plat \o "/" \o type

Constants(name, plat, type) ==
    [k \in {"BUILD_DIR", "PROJECT_DIR", "PROJECT_NAME", "BUILD_TYPE", "PLATFORM"} |->
        CASE k = "BUILD_DIR" -> ProjectBuildDir(name, plat, type)
          [] k = "PROJECT_DIR" -> ProjectBaseDir(name)
          [] k = "PROJECT_NAME" -> name
          [] k = "BUILD_TYPE" -> type
          [] k = "PLATFORM" -> plat]

\* f'-G "{osConfig.cmake_tool}"'
OsOptions(config, plat) ==
    LET osConfig == IF plat = "windows" THEN config.windows ELSE config.linux
    IN  <<"-G", "\"" \o osConfig.cmake_tool \o "\"">>

\* The options template of the build type: project.buildTypesConfig.get(type).
AddtionalOptionsTemplate(config, project, type) ==
    IF ~project.buildTypesConfig.none /\ type \in DOMAIN project.buildTypesConfig.v
    THEN project.buildTypesConfig.v[type].options
    ELSE <<>>

\* One flag per option but the last.
ConfigFilesOptionsStringShort(options) ==
    [i \in 1..(IF options = <<>> THEN 0 ELSE Len(options) - 1) |->
        "-D" \o options[i].key \o "=\"" \o options[i].value \o "\""]

\* [f'-D{key}="{value}"' for key, value in configFilesOptions.items()]
ConfigFilesOptionsString(options) ==
    [i \in DOMAIN options |->
        "-D" \o options[i].key \o "=\"" \o options[i].value \o "\""]

GenerateCommand(buildDir, osOptions, addtionalOptions, configFilesOptionsString) ==
    <<"cmake", "-B", buildDir>> \o osOptions \o addtionalOptions
        \o configFilesOptionsString

BuildCommand(buildDir, type) ==
    <<"cmake", "--build", buildDir, "--config", Upper(type)>>

\* What a call leaves in the attributes, or the exception it raises.
\* `executable` is an Optional ExecutableConfig; fs the project's config files.
ExtractCProjectInformation(projectName, executable, type, fs) ==
    LET failed(e, addtional) ==
            [error |-> e, baseDir |-> "", addtionalOptions |-> addtional,
             configFilesOptions |-> <<>>, generate |-> cProjectGenerateCommand,
             build |-> cProjectBuildCommand, executablePath |-> cExecutablePath]
    IN
    IF projectName \notin DOMAIN projectsDict
    THEN failed("AssertionError", cProjectAddtionalOptions)
    ELSE
    LET project == projectsDict[projectName]
        buildDir == ProjectBuildDir(project.name, platform, type)
        constants == Constants(project.name, platform, type)
        addtional == Render(
            AddtionalOptionsTemplate(settings.config, project, type), constants)
        read == ExtractCConfigFilesOptions(fs, type)
    IN  IF project.language # "C"
        THEN failed("AssertionError", cProjectAddtionalOptions)
        ELSE IF read.error # "" THEN failed(read.error, addtional)
        ELSE [error |-> "",
              baseDir |-> ProjectBaseDir(project.name),
              addtionalOptions |-> addtional,
              configFilesOptions |-> read.options,
              generate |-> GenerateCommand(
                  buildDir, OsOptions(settings.config, platform), addtional,
                  ConfigFilesOptionsString(read.options)),
              build |-> BuildCommand(buildDir, type),
              executablePath |->
                  IF executable.none THEN cExecutablePath
                  ELSE Render(IF platform = "windows"
                              THEN executable.v.windowsPath
                              ELSE executable.v.linuxPath, constants)]

\* executable = None; for executable in executables: if executable.name ==
\* name: break -- the loop variable is what is left: the first entry of that
\* name, else the last entry, None for an empty list.
FirstNamed(executables, name) ==
    LET hits == {i \in DOMAIN executables : executables[i].name = name}
    IN  IF hits = {} THEN None
        ELSE Some(executables[CHOOSE i \in hits : \A j \in hits : i <= j])

SelectExecutable(executables, name) ==
    IF executables = <<>> THEN None
    ELSE IF FirstNamed(executables, name).none
         THEN Some(executables[Len(executables)])
         ELSE FirstNamed(executables, name)

(* ------------------------------ Manager ------------------------------- *)

\* The config directories an invocation may find.
SampleFileSystems ==
    {NoFiles,
     [NoFiles EXCEPT !["release.cfg"] = File(<<KeyValue("OPT", "-O2")>>)],
     [NoFiles EXCEPT
        !["debug.cfg"] = File(<<Comment, Include("common.cfg"), KeyValue("X", "2"),
                                Other>>),
        !["common.cfg"] = File(<<KeyValue("X", "1"), KeyValue("Y", "1")>>)],
     [NoFiles EXCEPT
        !["test.cfg"] = File(<<Include("common.cfg"), KeyValue("T", "1")>>)],
     [NoFiles EXCEPT !["debug.cfg"] = File(<<Include("debug.cfg")>>)]}

Init ==
    /\ pc = "start"
    /\ error = ""
    /\ settings \in SettingsDocuments
    /\ platform \in {"windows", "linux"}
    /\ files = NoFiles
    /\ cProjects = <<>>
    /\ pythonProjects = <<>>
    /\ projectsDict = <<>>
    /\ exampleTargets = <<>>
    /\ args = NoArgs
    /\ validated = <<>>
    /\ cProjectAddtionalOptions = <<>>
    /\ configFilesOptions = <<>>
    /\ cProjectGenerateCommand = <<>>
    /\ cProjectBuildCommand = <<>>
    /\ cExecutablePath = <<>>
    /\ plan = <<>>
    /\ runLog = <<>>

composed == <<files, cProjectAddtionalOptions, configFilesOptions,
              cProjectGenerateCommand, cProjectBuildCommand, cExecutablePath>>

ExtractInformation ==
    /\ pc = "start"
    /\ cProjects' = CProjectsOf(settings.projects)
    /\ pythonProjects' = PythonProjectsOf(settings.projects)
    /\ projectsDict' = ProjectsDictOf(IndexOrder(CProjectsOf(settings.projects),
                                                 PythonProjectsOf(settings.projects)))
    /\ exampleTargets' = ExampleTargetsOf(CProjectsOf(settings.projects))
    /\ pc' = "indexed"
    /\ UNCHANGED <<error, settings, platform, args, validated, composed, plan, runLog>>

\* parser.parse_args(): a name outside the subcommand's choices is rejected
\* (args then holds what was typed).
ExtractArgs ==
    /\ pc = "indexed"
    /\ \E command \in Subcommands \cup {""}, name \in CliNames, type \in BUILD_TYPES :
          IF command = ""
          THEN /\ args' = [NoArgs EXCEPT !.type = type]
               /\ pc' = "execute"
               /\ error' = error
          ELSE /\ args' = ParsedArgs(command, name, type)
               /\ pc' = IF name \in Choices(command) THEN "execute" ELSE "failed"
               /\ error' = IF name \in Choices(command) THEN "" ELSE "ArgumentError"
    /\ UNCHANGED <<settings, platform, cProjects, pythonProjects, projectsDict,
                   exampleTargets, validated, composed, plan, runLog>>

registry == <<settings, platform, cProjects, pythonProjects, projectsDict,
              exampleTargets, args>>

NeededCommands == settings.config.neededCommands

\* for command in neededCommands: ValidateCommandExist(command) -- one turn.
ValidateCommandExist ==
    /\ pc = "execute"
    /\ Len(validated) < Len(NeededCommands)
    /\ \E found \in BOOLEAN :
          /\ validated' = Append(validated,
                [command |-> NeededCommands[Len(validated) + 1], found |-> found])
          /\ error' = ValidateOutcome(found)
          /\ pc' = IF ValidateOutcome(found) = "" THEN "execute" ELSE "failed"
    /\ UNCHANGED <<registry, composed, plan, runLog>>

Validated == pc = "execute" /\ Len(validated) = Len(NeededCommands)

Call(command, cwd) == [command |-> command, cwd |-> cwd]

\* The attributes a call of _ExtractCProjectInformation leaves, and the
\* RunCommand calls that follow it when it returns.
Composed(info, fs, calls) ==
    /\ files' = fs
    /\ cProjectAddtionalOptions' = info.addtionalOptions
    /\ configFilesOptions' = info.configFilesOptions
    /\ cProjectGenerateCommand' = info.generate
    /\ cProjectBuildCommand' = info.build
    /\ cExecutablePath' = info.executablePath
    /\ error' = info.error
    /\ plan' = IF info.error = "" THEN calls ELSE <<>>
    /\ pc' = IF info.error = "" THEN "running" ELSE "failed"

Fails(e) ==
    /\ error' = e
    /\ pc' = "failed"
    /\ UNCHANGED <<composed, plan>>

\* if self.args.command == "build":
ExecuteBuild ==
    /\ Validated
    /\ args.command = "build"
    /\ \E fs \in SampleFileSystems :
          LET info == ExtractCProjectInformation(args.projectName, None, args.type, fs)
          IN  IF info.error = "" /\ projectsDict[args.projectName].language # "C"
              THEN Composed([info EXCEPT !.error = "RuntimeError"], fs, <<>>)
              ELSE Composed(info, fs,
                            <<Call(info.generate, info.baseDir),
                              Call(info.build, info.baseDir)>>)
    /\ UNCHANGED <<registry, validated, runLog>>

\* elif self.args.command == "run": a Python project.
ExecuteRunPython ==
    /\ Validated
    /\ args.command = "run"
    /\ args.projectName \in DOMAIN projectsDict
    /\ projectsDict[args.projectName].language = "Python"
    /\ plan' = <<Call(<<"uv", "sync">>, ProjectBaseDir(args.projectName)),
                 Call(<<"uv", "run", "main.py">>, ProjectBaseDir(args.projectName))>>
    /\ pc' = "running"
    /\ UNCHANGED <<error, registry, validated, composed, runLog>>

\* elif self.args.command == "run": a C project.
ExecuteRunC ==
    /\ Validated
    /\ args.command = "run"
    /\ args.projectName \in DOMAIN projectsDict
    /\ projectsDict[args.projectName].language = "C"
    /\ LET project == projectsDict[args.projectName]
           executable == SelectExecutable(project.executables.v, "run")
       IN  IF project.executables.none \/ executable.none
           THEN Fails("AssertionError")
           ELSE \E fs \in SampleFileSystems :
                  LET info == ExtractCProjectInformation(
                                  args.projectName, executable, args.type, fs)
                  IN  Composed(info, fs,
                               <<Call(info.generate, info.baseDir),
                                 Call(info.build, info.baseDir),
                                 Call(info.executablePath, info.baseDir)>>)
    /\ UNCHANGED <<registry, validated, runLog>>

\* elif self.args.command == "example":
ExecuteExample ==
    /\ Validated
    /\ args.command = "example"
    /\ LET project == exampleTargets[args.exampleName]
           executable == SelectExecutable(project.executables.v, args.exampleName)
       IN  IF args.exampleName \notin DOMAIN exampleTargets
              \/ project.executables.none \/ executable.none
           THEN Fails("AssertionError")
           ELSE \E fs \in SampleFileSystems :
                  LET info == ExtractCProjectInformation(
                                  project.name, executable, args.type, fs)
                  IN  Composed(info, fs,
                               <<Call(info.generate, info.baseDir),
                                 Call(info.build, info.baseDir),
                                 Call(info.executablePath, info.baseDir)>>)
    /\ UNCHANGED <<registry, validated, runLog>>

\* No branch of _Execute matches "test" or a missing subcommand: it returns.
ExecuteNothing ==
    /\ Validated
    /\ args.command \in {"test", ""}
    /\ pc' = "done"
    /\ UNCHANGED <<error, registry, validated, composed, plan, runLog>>

\* The next RunCommand call of the branch: the command runs and exits with rc.
RunCommand ==
    /\ pc = "running"
    /\ Len(runLog) < Len(plan)
    /\ \E rc \in ExitCodes :
          LET call == plan[Len(runLog) + 1]
          IN  /\ runLog' = Append(runLog,
                    [command |-> call.command, cwd |-> call.cwd, rc |-> rc])
              /\ error' = RunOutcome(rc)
              /\ pc' = IF RunOutcome(rc) # "" THEN "failed"
                       ELSE IF Len(runLog) + 1 = Len(plan) THEN "done"
                       ELSE "running"
    /\ UNCHANGED <<registry, validated, composed, plan>>

Next ==
    \/ ExtractInformation
    \/ ExtractArgs
    \/ ValidateCommandExist
    \/ ExecuteBuild
    \/ ExecuteRunPython
    \/ ExecuteRunC
    \/ ExecuteExample
    \/ ExecuteNothing
    \/ RunCommand

Spec == Init /\ [][Next]_vars

(* ---------------- the config-file reader on its own ------------------- *)

ConfigLines ==
    {Comment, KeyValue("X", "1"), KeyValue("X", "2"), KeyValue("Y", "1"),
     Include("debug.cfg"), Include("common.cfg")}

FileContents == {Absent} \cup {File(ls) : ls \in SeqsUpTo(ConfigLines, MaxLines)}

\* config/debug.cfg and config/common.cfg with every content; no other file.
FileSystems ==
    {[NoFiles EXCEPT !["debug.cfg"] = d, !["common.cfg"] = c] :
        d \in FileContents, c \in FileContents}

InitCfg ==
    /\ pc = "config"
    /\ error = ""
    /\ settings = Settings(<<>>)
    /\ platform = "linux"
    /\ files \in FileSystems
    /\ cProjects = <<>>
    /\ pythonProjects = <<>>
    /\ projectsDict = <<>>
    /\ exampleTargets = <<>>
    /\ args = NoArgs
    /\ validated = <<>>
    /\ cProjectAddtionalOptions = <<>>
    /\ configFilesOptions = <<>>
    /\ cProjectGenerateCommand = <<>>
    /\ cProjectBuildCommand = <<>>
    /\ cExecutablePath = <<>>
    /\ plan = <<>>
    /\ runLog = <<>>

\* A call of Manager._ExtractCConfigFilesOptions for build type `type`.
ReadOptions ==
    /\ pc = "config"
    /\ \E type \in BUILD_TYPES :
          LET read == ExtractCConfigFilesOptions(files, type)
          IN  /\ args' = [NoArgs EXCEPT !.type = type]
              /\ configFilesOptions' = read.options
              /\ error' = read.error
              /\ pc' = IF read.error = "" THEN "done" ELSE "failed"
    /\ UNCHANGED <<settings, platform, files, cProjects, pythonProjects,
                   projectsDict, exampleTargets, validated,
                   cProjectAddtionalOptions, cProjectGenerateCommand,
                   cProjectBuildCommand, cExecutablePath, plan, runLog>>

NextCfg == ReadOptions

SpecCfg == InitCfg /\ [][NextCfg]_vars

(* =============================== claims ============================== *)

Range(seq) == {seq[i] : i \in DOMAIN seq}

Last(seq) == seq[Len(seq)]

\* The project a command line names: the one its name resolves to in the
\* registry (for example, the name of the example's owner).
TargetName ==
    IF args.command = "example"
    THEN IF args.exampleName \in DOMAIN exampleTargets
         THEN exampleTargets[args.exampleName].name ELSE ""
    ELSE args.projectName

Resolves == args.command \in Subcommands /\ TargetName \in DOMAIN projectsDict

Target == projectsDict[TargetName]

\* The calls each branch of _Execute makes, from the attributes composed.
ComposedCalls ==
    CASE args.command = "build" ->
            <<Call(cProjectGenerateCommand, ProjectBaseDir(TargetName)),
              Call(cProjectBuildCommand, ProjectBaseDir(TargetName))>>
      [] args.command = "run" /\ Target.language = "Python" ->
            <<Call(<<"uv", "sync">>, ProjectBaseDir(TargetName)),
              Call(<<"uv", "run", "main.py">>, ProjectBaseDir(TargetName))>>
      [] OTHER ->
            <<Call(cProjectGenerateCommand, ProjectBaseDir(TargetName)),
              Call(cProjectBuildCommand, ProjectBaseDir(TargetName)),
              Call(cExecutablePath, ProjectBaseDir(TargetName))>>

\* C1: the commands of an invocation run in their composed order; a command
\* is started only after every earlier one returned 0, and a failure ends
\* the invocation (no retry, no later command).
C1_InOrderAbortOnFirstFailure ==
    /\ Len(runLog) <= Len(plan)
    /\ plan # <<>> => plan = ComposedCalls
    /\ \A i \in DOMAIN runLog :
          /\ runLog[i].command = plan[i].command
          /\ runLog[i].cwd = plan[i].cwd
          /\ i < Len(runLog) => runLog[i].rc = 0
    /\ (runLog # <<>> /\ Last(runLog).rc # 0) =>
          pc = "failed" /\ error = "CalledProcessError"
    /\ pc = "done" => Len(runLog) = Len(plan)

\* The second of three commands failed: the third was never started.
C1_Witness ==
    /\ pc = "failed"
    /\ error = "CalledProcessError"
    /\ Len(plan) = 3
    /\ Len(runLog) = 2
    /\ runLog[1].rc = 0
    /\ runLog[2].rc # 0

\* The action/language pairs of the action table.
InActionTable(command, language) ==
    \/ command = "run" /\ language \in {"C", "Python"}
    \/ command \in {"build", "test", "example"} /\ language = "C"

\* The failures that reject an action for the project's language: the
\* parser's choices, the "not a C project" assertion, the RuntimeError.
UnsupportedLanguageErrors == {"ArgumentError", "AssertionError", "RuntimeError"}

\* C2: an action outside the action table for the project's language (build
\* on a project that is not C, ...) fails as an unsupported language, unless
\* a needed command was missing first, and no RunCommand call is made.
C2_UnsupportedPairFails ==
    (Resolves /\ ~InActionTable(args.command, Target.language)) =>
        /\ runLog = <<>>
        /\ plan = <<>>
        /\ pc # "done"
        /\ (pc = "failed" /\ error # "SystemError") =>
              error \in UnsupportedLanguageErrors

\* C3: before the first RunCommand call every needed command was checked,
\* in order, and found; a command found missing ends the invocation with
\* SystemError and no RunCommand call.
C3_ValidatedBeforeAnyRun ==
    /\ (runLog # <<>> \/ plan # <<>>) =>
          /\ Len(validated) = Len(NeededCommands)
          /\ \A i \in DOMAIN validated :
                validated[i].command = NeededCommands[i] /\ validated[i].found
    /\ (\E i \in DOMAIN validated : ~validated[i].found) =>
          /\ pc = "failed"
          /\ error = "SystemError"
          /\ runLog = <<>>
          /\ plan = <<>>

\* The first command was found, the second was not: the invocation failed.
C3_Witness ==
    /\ Len(validated) = 2
    /\ validated[1].found
    /\ ~validated[2].found
    /\ pc = "failed"
    /\ args.command = "build"

\* C4: test on a C library runs generate, then build with a target flag for
\* the test target, and nothing else.
C4_TestGeneratesThenBuildsTestTarget ==
    (pc = "done" /\ args.command = "test" /\ Resolves
        /\ Target.language = "C" /\ Target.type = "library") =>
        /\ Len(runLog) = 2
        /\ runLog[1].command = cProjectGenerateCommand
        /\ runLog[1].command # <<>>
        /\ runLog[2].command =
              BuildCommand(ProjectBuildDir(TargetName, platform, args.type),
                           args.type) \o <<"--target", "test">>

HasRunEntry(project) ==
    /\ ~project.executables.none
    /\ \E i \in DOMAIN project.executables.v : project.executables.v[i].name = "run"

\* The path of the project's first executable named "run", expanded.
RunTargetPath(project) ==
    LET entry == FirstNamed(project.executables.v, "run").v
    IN  Render(IF platform = "windows" THEN entry.windowsPath ELSE entry.linuxPath,
               Constants(project.name, platform, args.type))

\* C5: run on a C project runs generate, build, then the expanded path of
\* the executable named "run"; with no such entry the invocation fails and
\* runs nothing.
C5_RunsTheRunTarget ==
    (args.command = "run" /\ Resolves /\ Target.language = "C"
        /\ pc \in {"running", "done", "failed"}
        /\ error \notin {"SystemError", "ArgumentError"}) =>
        IF HasRunEntry(Target)
        THEN /\ plan # <<>> =>
                   /\ Len(plan) = 3
                   /\ plan[1].command = cProjectGenerateCommand
                   /\ plan[2].command = cProjectBuildCommand
                   /\ plan[3].command = RunTargetPath(Target)
             /\ pc = "done" => Len(runLog) = 3
        ELSE pc = "failed" /\ plan = <<>> /\ runLog = <<>>

\* The options template of the build type, read from the global settings.
GlobalOptionsTemplate(config, type) ==
    IF type \in DOMAIN config.buildTypesConfig
    THEN config.buildTypesConfig[type].options
    ELSE <<>>

\* C6: the build-type layer of the generate command is the expansion of the
\* global settings' template for the build type; with the default settings
\* and debug the command holds -DCMAKE_BUILD_TYPE=Debug.
C6_GlobalBuildTypeLayer ==
    (cProjectGenerateCommand # <<>> /\ Resolves) =>
        /\ cProjectAddtionalOptions =
              Render(GlobalOptionsTemplate(settings.config, args.type),
                     Constants(TargetName, platform, args.type))
        /\ args.type = "debug" =>
              "-DCMAKE_BUILD_TYPE=Debug" \in Range(cProjectGenerateCommand)

\* The key=value lines of file `name` in reading order, each include
\* replaced by the lines of the file it names (nesting followed `fuel` deep).
RECURSIVE Expanded(_, _, _)
RECURSIVE ExpandedLines(_, _, _, _)
ExpandedLines(fs, lines, i, fuel) ==
    IF i > Len(lines) THEN <<>>
    ELSE (CASE lines[i].kind = "kv" ->
                  <<[key |-> lines[i].key, value |-> lines[i].value]>>
            [] lines[i].kind = "include" -> Expanded(fs, lines[i].file, fuel - 1)
            [] OTHER -> <<>>)
         \o ExpandedLines(fs, lines, i + 1, fuel)

Expanded(fs, name, fuel) ==
    IF fuel = 0 \/ ~Exists(fs, name) THEN <<>>
    ELSE ExpandedLines(fs, fs[name].lines, 1, fuel)

Keys(assignments) == {assignments[i].key : i \in DOMAIN assignments}

\* The value of the last assignment to `key`.
LastAssigned(assignments, key) ==
    LET at == {i \in DOMAIN assignments : assignments[i].key = key}
    IN  assignments[CHOOSE i \in at : \A j \in at : j <= i].value

TopFile == args.type \o ".cfg"

\* C7: the mapping read has exactly the keys assigned in the file with its
\* includes expanded in place, each with the value of its last assignment.
C7_LastAssignmentWins ==
    pc = "done" =>
        LET assignments == Expanded(files, TopFile, RecursionLimit)
        IN  /\ Keys(configFilesOptions) = Keys(assignments)
            /\ Len(configFilesOptions) = Cardinality(Keys(assignments))
            /\ \A i \in DOMAIN configFilesOptions :
                  configFilesOptions[i].value =
                      LastAssigned(assignments, configFilesOptions[i].key)

\* An include below a key=value line, the included file setting the same key.
C7_Witness ==
    /\ pc = "done"
    /\ args.type = "debug"
    /\ files["debug.cfg"] = File(<<KeyValue("X", "1"), Include("common.cfg")>>)
    /\ files["common.cfg"] = File(<<KeyValue("Y", "1"), KeyValue("X", "2")>>)
    /\ configFilesOptions = <<[key |-> "X", value |-> "2"], [key |-> "Y", value |-> "1"]>>

Flag(key, value) == "-D" \o key \o "=\"" \o value \o "\""

\* What follows the build-type layer in the generate command.
ConfigFileLayer ==
    SubSeq(cProjectGenerateCommand, 6 + Len(cProjectAddtionalOptions),
           Len(cProjectGenerateCommand))

\* C8: in a composed generate command the config-file layer has one
\* -D<key>="<value>" flag per key of the mapping of config/<type>.cfg and no
\* other; none when that file is missing.
C8_OneFlagPerKey ==
    cProjectGenerateCommand # <<>> =>
        LET assignments == Expanded(files, TopFile, RecursionLimit)
        IN  /\ Len(cProjectGenerateCommand) >= 5 + Len(cProjectAddtionalOptions)
            /\ Range(ConfigFileLayer) =
                  {Flag(k, LastAssigned(assignments, k)) : k \in Keys(assignments)}
            /\ Len(ConfigFileLayer) = Cardinality(Keys(assignments))
            /\ ~Exists(files, TopFile) => ConfigFileLayer = <<>>

\* release.cfg holds OPT=-O2 and the build type is release.
C8_Witness ==
    /\ cProjectGenerateCommand # <<>>
    /\ args.type = "release"
    /\ files["release.cfg"] = File(<<KeyValue("OPT", "-O2")>>)
    /\ ConfigFileLayer = <<"-DOPT=\"-O2\"">>

\* The files a file includes, and those reached through includes.
IncludedBy(fs, name) ==
    IF Exists(fs, name)
    THEN {fs[name].lines[i].file :
            i \in {j \in DOMAIN fs[name].lines : fs[name].lines[j].kind = "include"}}
    ELSE {}

RECURSIVE ReachedFrom(_, _, _)
ReachedFrom(fs, names, n) ==
    IF n = 0 THEN names
    ELSE ReachedFrom(fs, names \cup UNION {IncludedBy(fs, f) : f \in names}, n - 1)

\* An existing file read from `name` reaches itself through its includes.
HasIncludeCycle(fs, name) ==
    \E f \in ReachedFrom(fs, {name}, Cardinality(DOMAIN fs)) :
        /\ Exists(fs, f)
        /\ f \in ReachedFrom(fs, IncludedBy(fs, f), Cardinality(DOMAIN fs))

\* C9: reading files whose includes form a cycle ends with the cycle
\* reported as a ConfigParseError.
C9_CycleReported ==
    (pc \in {"done", "failed"} /\ HasIncludeCycle(files, TopFile)) =>
        pc = "failed" /\ error = "ConfigParseError"

IndicesOf(ps, name, language) ==
    {i \in DOMAIN ps : ps[i].name = name /\ ps[i].language = language}

Max(S) == CHOOSE i \in S : \A j \in S : j <= i

\* C10 as stated: byName maps each name to the last project of that name in
\* the settings' order, whatever the languages.
C10_LastInSettingsOrder ==
    pc # "start" =>
        /\ DOMAIN projectsDict = Names(settings.projects)
        /\ \A n \in DOMAIN projectsDict :
              projectsDict[n] =
                  settings.projects[Max({i \in DOMAIN settings.projects :
                                            settings.projects[i].name = n})]

\* C10 amended: byName maps each name to the last Python project of that
\* name in the settings' order when there is one, else to the last C project
\* of that name.
C10_LastPythonElseLastC ==
    pc # "start" =>
        /\ DOMAIN projectsDict = Names(settings.projects)
        /\ \A n \in DOMAIN projectsDict :
              projectsDict[n] =
                  IF IndicesOf(settings.projects, n, "Python") # {}
                  THEN settings.projects[Max(IndicesOf(settings.projects, n, "Python"))]
                  ELSE settings.projects[Max(IndicesOf(settings.projects, n, "C"))]

\* A C project listed after a Python project of its name: the Python one is kept.
C10_Witness ==
    /\ pc # "start"
    /\ Len(settings.projects) = 2
    /\ settings.projects[1].name = settings.projects[2].name
    /\ settings.projects[1].language = "Python"
    /\ settings.projects[2].language = "C"
    /\ projectsDict[settings.projects[1].name] = settings.projects[1]

\* The placeholders of a template that name no constant.
UndefinedPlaceholders(template) ==
    UNION {{template[i][j].var : j \in DOMAIN template[i]} : i \in DOMAIN template}
        \ {"", "BUILD_DIR", "PROJECT_DIR", "PROJECT_NAME", "BUILD_TYPE", "PLATFORM"}

\* The executable a run or example invocation hands to the composer.
ChosenExecutable ==
    IF args.command \in {"run", "example"} /\ ~Target.executables.none
    THEN SelectExecutable(Target.executables.v,
                          IF args.command = "run" THEN "run" ELSE args.exampleName)
    ELSE None

\* The templates an invocation renders: the build type's options and, for
\* run and example, the chosen executable's path for the platform.
RenderedTemplates ==
    {AddtionalOptionsTemplate(settings.config, Target, args.type)}
    \cup (IF ChosenExecutable.none THEN {}
          ELSE {IF platform = "windows" THEN ChosenExecutable.v.windowsPath
                ELSE ChosenExecutable.v.linuxPath})

\* C11: a template with a placeholder that names no key of the context makes
\* the invocation fail with an undefined-variable error; the placeholder is
\* never rendered as empty text and no command is composed or run from it.
C11_UndefinedPlaceholderFails ==
    (Resolves /\ Target.language = "C"
        /\ args.command \in {"build", "run", "example"}
        /\ \E t \in RenderedTemplates : UndefinedPlaceholders(t) # {}) =>
        /\ pc \notin {"running", "done"}
        /\ plan = <<>>
        /\ runLog = <<>>
        /\ cProjectGenerateCommand = <<>>
        /\ pc = "failed" =>
              error \in {"UndefinedError", "SystemError", "ArgumentError"}

====
